---- MODULE Spec2Model ----
(***************************************************************************)
(* The Approver plugin (Mattermost): the slash command, bot provisioning   *)
(* at activation, and the relay of a dialog submission as a direct         *)
(* message.  The host (users, key-value store, channels, posts) is the     *)
(* environment: every host API call is one step whose outcome is drawn     *)
(* from the results the call can produce.                                  *)
(*                                                                         *)
(* The repository holds successive revisions of server/plugin.go.  Three   *)
(* of them serve dialog submissions over HTTP and are modelled side by     *)
(* side; rev says which one is deployed:                                   *)
(*   "A"  src/server/plugin.go lines 1-301                                 *)
(*   "B"  src/server/plugin.go lines 303-718                               *)
(*   "C"  src/unnamed/part_003 (the latest, with bot verification and      *)
(*        panic recovery)                                                  *)
(* OnActivate, ensureBotExists, ExecuteCommand and handleNewCommand are    *)
(* the same in the three.                                                  *)
(***************************************************************************)
EXTENDS Naturals, Sequences, FiniteSets, TLC

VARIABLES
    rev,     \* the deployed revision
    users,   \* the host's user table: ids of the existing accounts
    kv,      \* the plugin's key-value store: the value under "bot_user_id"
    act,     \* the OnActivate call in progress
    reqs,    \* the HTTP requests in progress, by slot
    cmd      \* the ExecuteCommand call just answered

vars == <<rev, users, kv, act, reqs, cmd>>

\* ------------------------------------------------------------------ bounds

\* Request slots of the host's plugin runtime: the submissions it can hand
\* to the plugin at the same time.
MaxRequests == 2
\* Longest text following the command prefix in a generated command line.
MaxTail == 6

\* ------------------------------------------------------------------ values

Nil == "<nil>"              \* Go's nil (pointer, slice, interface)
Revisions == {"A", "B", "C"}

\* The host's accounts.  u1 and u2 are ordinary users; imp is an ordinary
\* user who registered the user name "approvalbot"; bot is the bot account
\* that CreateBot makes (or that an earlier installation left).  ghost is an
\* id no account has.
OrdinaryIds == {"u1", "u2", "imp"}
BotIds == {"bot"}
UserIds == OrdinaryIds \cup BotIds
botUsername == "approvalbot"
Username(u) ==
    CASE u = "u1" -> "alice"
      [] u = "u2" -> "bob"
      [] u = "imp" -> botUsername
      [] u = "bot" -> botUsername
      [] OTHER -> Nil
IsBot(u) == u \in BotIds

\* Host lookup by user name: the account holding the name, or Nil.
UserByName(us, name) ==
    IF \E u \in us : Username(u) = name
    THEN CHOOSE u \in us : Username(u) = name
    ELSE Nil

\* The direct channel of two users, as the host resolves it: one channel per
\* unordered pair.
DirectChannel(a, b) == {a, b}
NoChannel == {}

\* ------------------------------------------------------- strings as text

\* A command line is a sequence of one-character strings.
Approver == <<"/", "a", "p", "p", "r", "o", "v", "e", "r">>
New == <<"n", "e", "w">>
IsSpace(c) == c \in {" ", "\t"}

\* strings.HasPrefix
HasPrefix(s, prefix) ==
    /\ Len(s) >= Len(prefix)
    /\ SubSeq(s, 1, Len(prefix)) = prefix

\* strings.Fields: the maximal runs of non-space characters, in order.  The
\* scan keeps the field being read in cur and emits it at a space or at the
\* end of the text.
RECURSIVE FieldsFrom(_, _, _)
FieldsFrom(s, i, cur) ==
    IF i > Len(s)
    THEN IF cur = <<>> THEN <<>> ELSE <<cur>>
    ELSE IF IsSpace(s[i])
         THEN (IF cur = <<>> THEN <<>> ELSE <<cur>>) \o FieldsFrom(s, i + 1, <<>>)
         ELSE FieldsFrom(s, i + 1, Append(cur, s[i]))
Fields(s) == FieldsFrom(s, 1, <<>>)

\* ------------------------------------------------------------- activation

\* calls is the log of the host calls made, each with what it answered.
IdleAct == [pc |-> "idle", stored |-> Nil, botUserID |-> "", calls |-> <<>>,
            ret |-> "none", warned |-> FALSE]

Called(a, name, answer) == [a EXCEPT !.calls = Append(@, <<name, answer>>)]

\* EnsureReturns handing ensureBotExists's error on: OnActivate returns it
\* instead of logging a warning.
EnsureReturnsError(a, id, failed) ==
    IF failed
    THEN [a EXCEPT !.pc = "done", !.ret = "err"]
    ELSE IF id # ""
         THEN [a EXCEPT !.pc = "KVSet", !.botUserID = id]
         ELSE [a EXCEPT !.pc = "done", !.ret = "nil"]

\* What ensureBotExists hands back to OnActivate, and what OnActivate does
\* with it (lines 42-53): an error is logged and activation goes on; an id
\* is stored with KVSet; OnActivate returns nil either way.
EnsureReturns(a, id, failed) ==
    IF failed
    THEN [a EXCEPT !.pc = "done", !.ret = "nil", !.warned = TRUE]
    ELSE IF id # ""
         THEN [a EXCEPT !.pc = "KVSet", !.botUserID = id]
         ELSE [a EXCEPT !.pc = "done", !.ret = "nil"]

\* OnActivate, lines 28-39: RegisterCommand; its error is returned.
RegisterCommandStep(a, out) ==
    IF out = "err"
    THEN [Called(a, "RegisterCommand", out) EXCEPT !.pc = "done", !.ret = "err"]
    ELSE [Called(a, "RegisterCommand", out) EXCEPT !.pc = "KVGet"]

\* ensureBotExists, lines 59-65: read the cached id.
EnsureKVGetStep(a, out, stored) ==
    IF out = "err"
    THEN EnsureReturns(Called(a, "KVGet", out), "", TRUE)
    ELSE IF stored # Nil
         THEN [Called(a, "KVGet", stored) EXCEPT !.pc = "GetUser",
                                                 !.stored = stored]
         ELSE [Called(a, "KVGet", stored) EXCEPT !.pc = "GetUserByUsername"]

\* EnsureGetUserStep without the early return of line 69: the user name
\* is looked up although the cached id resolved.
EnsureGetUserStepNoReturn(a, out) ==
    [Called(a, "GetUser", out) EXCEPT !.pc = "GetUserByUsername"]

\* ensureBotExists, lines 66-71: the cached id still names a user.
EnsureGetUserStep(a, out) ==
    IF out = "ok"
    THEN EnsureReturns(Called(a, "GetUser", out), a.stored, FALSE)
    ELSE [Called(a, "GetUser", out) EXCEPT !.pc = "GetUserByUsername"]

\* ensureBotExists, lines 74-78: a user holding the bot's user name; the
\* call's error is dropped.
EnsureGetUserByUsernameStep(a, found) ==
    IF found # Nil
    THEN EnsureReturns(Called(a, "GetUserByUsername", found), found, FALSE)
    ELSE [Called(a, "GetUserByUsername", found) EXCEPT !.pc = "CreateBot"]

\* ensureBotExists, lines 81-92: create the bot.
EnsureCreateBotStep(a, out, created) ==
    IF out = "err"
    THEN EnsureReturns(Called(a, "CreateBot", out), "", TRUE)
    ELSE EnsureReturns(Called(a, "CreateBot", created), created, FALSE)

\* StoreStep with a retry: a failed KVSet is tried once more.
StoreStepRetry(a, out) ==
    IF out = "err" /\ a.calls[Len(a.calls)][1] # "KVSet"
    THEN [Called(a, "KVSet", out) EXCEPT !.warned = TRUE]
    ELSE [Called(a, "KVSet", out) EXCEPT !.pc = "done", !.ret = "nil",
                                         !.warned = (out = "err")]

\* OnActivate, lines 48-53: KVSet's error is logged.
StoreStep(a, out) ==
    [Called(a, "KVSet", out) EXCEPT !.pc = "done", !.ret = "nil",
                                    !.warned = (out = "err")]

\* ---------------------------------------------------------- HTTP requests

Missing == "<missing>"        \* the submission has no such key
NonString == "<non-string>"   \* the key holds a value that is not a string

\* A text (a Go string built by concatenation or Sprintf) is the sequence of
\* its pieces; the empty text is <<>>.
MissingMsg == <<"Missing required fields. Please fill in all fields and try again.">>
InvalidMsg == <<"The selected approver is invalid. Please select a different user.">>
FailedMsg == <<"Failed to send message to approver">>
ConfirmationMsg == <<"Your approval request has been sent to the approver.">>
InternalMsg == <<"Internal server error">>
NotFoundMsg == <<"404 page not found">>

IdleReq ==
    [pc |-> "idle", path |-> "", body |-> "", UserId |-> "", ChannelId |-> "",
     CallbackId |-> "",
     sub |-> [title |-> Missing, description |-> Missing, approver |-> Missing],
     title |-> "", description |-> "", approverUserId |-> "",
     appErr |-> Nil, botUserIDBytes |-> Nil, requester |-> Nil,
     botUser |-> Nil, requesterAnswer |-> "none",
     botChannel |-> NoChannel, channel |-> NoChannel,
     message |-> <<>>, sdm |-> "none", status |-> 0, written |-> <<>>,
     posts |-> <<>>, creates |-> <<>>, calls |-> <<>>, ephemerals |-> <<>>,
     panic |-> "none", panicAt |-> "", logged |-> FALSE]

\* http.ResponseWriter: the first WriteHeader fixes the status, a later one
\* is superfluous and changes nothing; Write sends the header with 200 when
\* none was sent.
WriteHeader(q, code) == IF q.status = 0 THEN [q EXCEPT !.status = code] ELSE q
Write(q, doc) == [WriteHeader(q, 200) EXCEPT !.written = Append(@, doc)]
Finished(q) == [q EXCEPT !.pc = "done"]
Calls(q, api, a, b) == [q EXCEPT !.calls = Append(@, <<api, a, b>>)]

\* A panic raised at step `at`.  Revision C's ServeHTTP defers a recover
\* (lines 268-277), which runs next; revisions A and B defer nothing and the
\* panic leaves ServeHTTP.
Panics(q, at) ==
    IF rev = "C"
    THEN [q EXCEPT !.pc = "Recover", !.panic = "pending", !.panicAt = at]
    ELSE [q EXCEPT !.pc = "done", !.panic = "escaped", !.panicAt = at]

\* The handler's JSON answer: Content-Type, WriteHeader(200), Encode.
Respond(q, errText) ==
    Write(WriteHeader(q, 200), [json |-> "SubmitDialogResponse", Error |-> errText])

\* ExtractField without the fallbacks: a missing or non-string value leaves
\* the variable at its zero value.
ExtractFieldZero(raw, fallback) ==
    IF raw \in {Missing, NonString} THEN "" ELSE raw

\* handleDialogSubmission, lines 328-364: a field of the submission read
\* with two-valued type assertions; a missing or non-string value is
\* replaced.
ExtractField(raw, fallback) ==
    IF raw \in {Missing, NonString} THEN fallback ELSE raw

\* The request as it arrives: nothing of it is read before ServeHTTP runs.
NewReq(in) ==
    [IdleReq EXCEPT !.pc = "ServeHTTP", !.path = in.path, !.body = in.body,
                    !.UserId = in.UserId, !.ChannelId = in.ChannelId,
                    !.sub = in.sub]

\* ServeStep routing on the prefix: strings.HasPrefix(path,
\* "/dialog/submit").
ServeStepPrefix(q, out) ==
    IF out = "panic" THEN Panics(q, "ServeHTTP")
    ELSE IF q.path \in {"/dialog/submit", "/dialog/submit/", "/dialog/submit/x"}
         THEN [q EXCEPT !.pc = "Decode"]
         ELSE Finished(Write(WriteHeader(q, 404),
                             [json |-> "text", Error |-> NotFoundMsg]))

\* ServeHTTP, lines 279-290: route on the exact path.  http.NotFound answers
\* 404 with a plain text.
ServeStep(q, out) ==
    IF out = "panic" THEN Panics(q, "ServeHTTP")
    ELSE IF q.path = "/dialog/submit"
         THEN [q EXCEPT !.pc = "Decode"]
         ELSE Finished(Write(WriteHeader(q, 404),
                             [json |-> "text", Error |-> NotFoundMsg]))

\* DecodeStep without the tests of lines 304 and 317: a body that cannot be
\* read or parsed is handled as a submission without fields.
DecodeStepUnchecked(q, out) ==
    IF out \in {"panic", "latepanic"} THEN Panics(q, "Decode")
    ELSE IF rev = "A"
    THEN IF \E f \in {q.sub.title, q.sub.description, q.sub.approver} :
                f \in {Missing, NonString}
         THEN Panics(q, "Decode")
         ELSE [q EXCEPT !.title = q.sub.title,
                        !.description = q.sub.description,
                        !.approverUserId = q.sub.approver,
                        !.pc = "sdmKVGet"]
    ELSE [q EXCEPT !.title = ExtractField(q.sub.title, "Untitled Request"),
                   !.description = ExtractField(q.sub.description,
                                                "No description provided"),
                   !.approverUserId = ExtractField(q.sub.approver, q.UserId),
                   !.pc = "KVGet"]

\* handleDialogSubmission up to its first host call.
\* Revisions B and C (part_003 lines 295-371): read the body, parse it,
\* extract the three fields with their fallbacks.  A body that cannot be
\* read or parsed is answered 400; the parse failure is logged after the
\* header is written (line 319).
\* Revision A (plugin.go lines 262-271): parse, then unchecked type
\* assertions, which panic on a missing or non-string value.
DecodeStep(q, out) ==
    IF out = "panic" THEN Panics(q, "Decode")
    ELSE IF q.body # "valid"
    THEN IF out = "latepanic"
         THEN Panics(WriteHeader(q, 400), "Decode")
         ELSE Finished(WriteHeader(q, 400))
    ELSE IF rev = "A"
    THEN IF \E f \in {q.sub.title, q.sub.description, q.sub.approver} :
                f \in {Missing, NonString}
         THEN Panics(q, "Decode")
         ELSE [q EXCEPT !.title = q.sub.title,
                        !.description = q.sub.description,
                        !.approverUserId = q.sub.approver,
                        !.pc = "sdmKVGet"]
    ELSE [q EXCEPT !.title = ExtractField(q.sub.title, "Untitled Request"),
                   !.description = ExtractField(q.sub.description,
                                                "No description provided"),
                   !.approverUserId = ExtractField(q.sub.approver, q.UserId),
                   !.pc = "KVGet"]

\* KVGetStep without the validation of lines 388-401.
KVGetStepNoValidation(q, out) ==
    LET q1 == Calls(q, "KVGet", "bot_user_id", "") IN
    IF out = "panic" THEN Panics(q1, "KVGet")
    ELSE [q1 EXCEPT !.pc = "GetApprover"]

\* handleDialogSubmission, lines 373-401: the bot id is read for the log
\* only; then the required fields are validated.
KVGetStep(q, out) ==
    LET q1 == Calls(q, "KVGet", "bot_user_id", "") IN
    IF out = "panic" THEN Panics(q1, "KVGet")
    ELSE IF q.title = "" \/ q.description = "" \/ q.approverUserId = ""
         THEN Finished(Respond(q1, MissingMsg))
         ELSE [q1 EXCEPT !.pc = "GetApprover"]

\* GetApproverStep going on to sendDirectMessage although the lookup
\* failed.
GetApproverStepIgnoresError(q, out) ==
    LET q1 == Calls(q, "GetUser", q.approverUserId, "")
        q2 == [q1 EXCEPT !.appErr = "GetUser: error"]
    IN  IF out = "panic" THEN Panics(q1, "GetApprover")
        ELSE IF out = "errlogpanic" THEN Panics(q2, "GetApprover")
        ELSE IF out = "err" THEN [q2 EXCEPT !.pc = "sdmKVGet"]
        ELSE [q1 EXCEPT !.pc = "sdmKVGet"]

\* handleDialogSubmission, lines 403-414: the approver must be a user the
\* host knows; only the call's error is tested.  The error is logged (line
\* 406) before the answer is written.
GetApproverStep(q, out) ==
    LET q1 == Calls(q, "GetUser", q.approverUserId, "")
        q2 == [q1 EXCEPT !.appErr = "GetUser: error"]
    IN  IF out = "panic" THEN Panics(q1, "GetApprover")
        ELSE IF out = "errlogpanic" THEN Panics(q2, "GetApprover")
        ELSE IF out = "err" THEN Finished(Respond(q2, InvalidMsg))
        ELSE [q1 EXCEPT !.pc = "sdmKVGet"]

\* ------------------------------------------------------ sendDirectMessage

\* sendDirectMessage returns: nil (Nil) or an *model.AppError, named here by
\* its text.
SdmReturn(q, res) == [q EXCEPT !.sdm = res, !.pc = "AfterSend"]

\* fmt.Sprintf of the message, lines 190-191.
Message(q, name) ==
    <<"**New Approval Request from @", name, "**\n\n**", q.title, "**\n\n",
      q.description>>
\* Revision A's message on the user path, plugin.go line 234.
PlainMessage(q) == <<"**", q.title, "**\n\n", q.description>>

\* Line 194 (C) and plugin.go line 487 (B): a bot id was read.
BotAvailable(q) == q.botUserIDBytes # Nil /\ q.botUserIDBytes # ""

\* Lines 171-175: read the stored bot id; a failed read continues without
\* bot.  Revision A (plugin.go lines 194-197) branches here.
SdmKVGetStep(q, out, stored) ==
    LET bytes == IF out = "ok" THEN stored ELSE Nil
        q1 == [Calls(q, "KVGet", "bot_user_id", "") EXCEPT
                  !.botUserIDBytes = bytes]
    IN  IF out = "panic" THEN Panics(q1, "sdmKVGet")
        ELSE IF rev = "A"
             THEN IF out = "ok" /\ bytes # Nil
                  THEN [q1 EXCEPT !.pc = "sdmBotChannel"]
                  ELSE [q1 EXCEPT !.pc = "sdmUserChannel"]
             ELSE [q1 EXCEPT !.pc = "sdmGetRequester"]

\* Lines 177-194: look the requester up and format the message.
\* Revision B (plugin.go 476-487) dereferences the user without a nil test.
\* Revision A (plugin.go 208-222) does so on the bot path, after the bot's
\* channel was resolved, and then dereferences the channel.
SdmGetRequesterStep(q, out) ==
    LET q0 == Calls(q, "GetUser", q.UserId, "")
        q1 == IF out = "panic" THEN q0 ELSE [q0 EXCEPT !.requesterAnswer = out]
        q2 == [q1 EXCEPT !.requester = Username(q.UserId),
                         !.message = Message(q, Username(q.UserId))]
    IN  IF out = "panic" THEN Panics(q1, "sdmGetRequester")
        ELSE IF out = "err" THEN SdmReturn(q1, "GetUser: error")
        ELSE IF out = "nil"
        THEN IF rev = "C"
             THEN SdmReturn(q1, "Failed to get requester info: user is nil")
             ELSE Panics(q1, "sdmGetRequester")
        ELSE IF rev = "A"
        THEN IF q.botChannel = NoChannel
             THEN Panics(q2, "sdmGetRequester")
             ELSE [q2 EXCEPT !.pc = "sdmBotPost"]
        ELSE IF BotAvailable(q)
        THEN [q2 EXCEPT !.pc = IF rev = "C" THEN "sdmGetBot" ELSE "sdmBotChannel"]
        ELSE [q2 EXCEPT !.pc = "sdmUserChannel"]

\* SdmGetBotStep without the test of line 200: the bot path goes on
\* whatever the lookup answered.
SdmGetBotStepUnverified(q, out) ==
    LET q1 == Calls(q, "GetUser", q.botUserIDBytes, "") IN
    IF out = "panic" THEN Panics(q1, "sdmGetBot")
    ELSE IF out = "ok"
         THEN [q1 EXCEPT !.pc = "sdmBotChannel", !.botUser = q.botUserIDBytes]
         ELSE [q1 EXCEPT !.pc = "sdmBotChannel"]

\* Lines 198-203 (revision C only): the stored id must name a user.
SdmGetBotStep(q, out) ==
    LET q1 == Calls(q, "GetUser", q.botUserIDBytes, "") IN
    IF out = "panic" THEN Panics(q1, "sdmGetBot")
    ELSE IF out = "ok"
         THEN [q1 EXCEPT !.pc = "sdmBotChannel", !.botUser = q.botUserIDBytes]
         ELSE [q1 EXCEPT !.pc = "sdmUserChannel"]

\* SdmBotChannelStep giving up on the bot's channel: the error is returned
\* instead of falling back to the user.
SdmBotChannelStepGivesUp(q, out) ==
    LET q1 == Calls(q, "GetDirectChannel", q.botUserIDBytes, q.approverUserId)
        q2 == [q1 EXCEPT !.botChannel =
                   DirectChannel(q.botUserIDBytes, q.approverUserId)]
    IN  IF out = "panic" THEN Panics(q1, "sdmBotChannel")
        ELSE IF out = "ok" THEN [q2 EXCEPT !.pc = "sdmBotPost"]
        ELSE SdmReturn(q1, "GetDirectChannel: error")

\* Lines 204-207 and 224-230: the bot's direct channel with the approver.
\* Revision B (plugin.go 492-494) tests the error only and dereferences the
\* channel; revision A (plugin.go 202-205) returns the error.
SdmBotChannelStep(q, out) ==
    LET q1 == Calls(q, "GetDirectChannel", q.botUserIDBytes, q.approverUserId)
        ch == IF out = "ok"
              THEN DirectChannel(q.botUserIDBytes, q.approverUserId)
              ELSE NoChannel
        q2 == [q1 EXCEPT !.botChannel = ch]
    IN  IF out = "panic" THEN Panics(q1, "sdmBotChannel")
        ELSE IF rev = "A"
        THEN IF out = "err"
             THEN SdmReturn(q1, "GetDirectChannel: error")
             ELSE [q2 EXCEPT !.pc = "sdmGetRequester"]
        ELSE IF out = "ok" THEN [q2 EXCEPT !.pc = "sdmBotPost"]
        ELSE IF out = "nil" /\ rev = "B" THEN Panics(q1, "sdmBotChannel")
        ELSE [q1 EXCEPT !.pc = "sdmUserChannel"]

\* The host's CreatePost for `post`, attempted as `who` ("bot" or "user"):
\* the attempt is counted, the post exists when the call succeeded.
Created(q, who, post, ok) ==
    [Calls(q, "CreatePost", post.UserId, "") EXCEPT
        !.creates = Append(@, [as |-> who, UserId |-> post.UserId, ok |-> ok]),
        !.posts = IF ok THEN Append(@, post) ELSE @]

\* SdmBotPostStep without the `return nil` of line 220: after the bot's
\* post the function goes on to the user path.
SdmBotPostStepNoReturn(q, out) ==
    LET botPost == [UserId |-> q.botUserIDBytes, ChannelId |-> q.botChannel,
                    Message |-> q.message]
        q1 == Created(q, "bot", botPost, out \in {"ok", "oklogpanic"})
    IN  IF out \in {"panic", "oklogpanic"} THEN Panics(q1, "sdmBotPost")
        ELSE [q1 EXCEPT !.pc = "sdmUserChannel"]

\* Lines 209-223: post as the bot; success returns nil, failure falls back
\* to the user.  Revision A (plugin.go 218-225) returns the error.
SdmBotPostStep(q, out) ==
    LET botPost == [UserId |-> q.botUserIDBytes, ChannelId |-> q.botChannel,
                    Message |-> q.message]
        q1 == Created(q, "bot", botPost, out \in {"ok", "oklogpanic"})
    IN  IF out \in {"panic", "oklogpanic"} THEN Panics(q1, "sdmBotPost")
        ELSE IF out = "ok" THEN SdmReturn(q1, Nil)
        ELSE IF rev = "A" THEN SdmReturn(q1, "CreatePost: error")
        ELSE [q1 EXCEPT !.pc = "sdmUserChannel"]

\* Lines 234-245: the requester's direct channel with the approver.
\* Revisions A and B (plugin.go 228-241, 518-528) test the error only and
\* dereference the channel.
SdmUserChannelStep(q, out) ==
    LET q1 == Calls(q, "GetDirectChannel", q.UserId, q.approverUserId)
        q2 == [q1 EXCEPT !.channel = DirectChannel(q.UserId, q.approverUserId),
                         !.message = IF rev = "A" THEN PlainMessage(q) ELSE @,
                         !.pc = "sdmUserPost"]
    IN  IF out = "panic" THEN Panics(q1, "sdmUserChannel")
        ELSE IF out = "err" THEN SdmReturn(q1, "GetDirectChannel: error")
        ELSE IF out = "nil"
        THEN IF rev = "C"
             THEN SdmReturn(q1, "Failed to get direct channel: channel is nil")
             ELSE Panics(q1, "sdmUserChannel")
        ELSE q2

\* SdmUserPostStep reusing the channel variable of the bot path: after a
\* failed post as the bot the requester's post goes to the bot's channel.
SdmUserPostStepBotChannel(q, out) ==
    LET post == [UserId |-> q.UserId,
                 ChannelId |-> IF q.botChannel # NoChannel
                               THEN q.botChannel ELSE q.channel,
                 Message |-> q.message]
        q1 == Created(q, "user", post, out \in {"ok", "oklogpanic"})
    IN  IF out \in {"panic", "oklogpanic"} THEN Panics(q1, "sdmUserPost")
        ELSE IF out = "ok" THEN SdmReturn(q1, Nil)
        ELSE SdmReturn(q1, "CreatePost: error")

\* SdmUserPostStep with the message kept in a field of the plugin, which
\* the handlers share: the post carries the message another handler
\* formatted meanwhile.
SdmUserPostStepShared(q, out) ==
    LET others == {s \in DOMAIN reqs :
                      reqs[s].message # <<>> /\ reqs[s].UserId # q.UserId}
        shared == IF others = {} THEN q.message
                  ELSE reqs[CHOOSE s \in others : TRUE].message
        post == [UserId |-> q.UserId, ChannelId |-> q.channel,
                 Message |-> shared]
        q1 == Created(q, "user", post, out \in {"ok", "oklogpanic"})
    IN  IF out \in {"panic", "oklogpanic"} THEN Panics(q1, "sdmUserPost")
        ELSE IF out = "ok" THEN SdmReturn(q1, Nil)
        ELSE SdmReturn(q1, "CreatePost: error")

\* SdmUserPostStep with a retry: a failed post as the requester is tried
\* once more.
SdmUserPostStepRetry(q, out) ==
    LET post == [UserId |-> q.UserId, ChannelId |-> q.channel,
                 Message |-> q.message]
        q1 == Created(q, "user", post, out \in {"ok", "oklogpanic"})
    IN  IF out \in {"panic", "oklogpanic"} THEN Panics(q1, "sdmUserPost")
        ELSE IF out = "ok" THEN SdmReturn(q1, Nil)
        ELSE IF Len(q.creates) < 3 THEN q1
        ELSE SdmReturn(q1, "CreatePost: error")

\* Lines 247-262: post as the requester and return CreatePost's error.
SdmUserPostStep(q, out) ==
    LET post == [UserId |-> q.UserId, ChannelId |-> q.channel,
                 Message |-> q.message]
        q1 == Created(q, "user", post, out \in {"ok", "oklogpanic"})
    IN  IF out \in {"panic", "oklogpanic"} THEN Panics(q1, "sdmUserPost")
        ELSE IF out = "ok" THEN SdmReturn(q1, Nil)
        ELSE SdmReturn(q1, "CreatePost: error")

\* ------------------------------------------- back in handleDialogSubmission

\* A Go interface value: the dynamic type and the value.  It is nil only
\* when it holds no type.
NilInterface == [type |-> Nil, ptr |-> Nil]
\* Line 417, `err = p.sendDirectMessage(...)`: err was declared by
\* `bodyBytes, err := io.ReadAll(r.Body)` (line 303) and has the interface
\* type error, so the *model.AppError is converted to an interface holding
\* that type.
ErrAssigned(res) == [type |-> "*model.AppError", ptr |-> res]
\* Line 418, `err != nil`.  Revision A declares err with
\* `err := p.sendDirectMessage(...)` (plugin.go line 274): a pointer, tested
\* as a pointer.
ErrNotNil(q) ==
    IF rev = "A" THEN q.sdm # Nil ELSE ErrAssigned(q.sdm) # NilInterface

\* Lines 419-430: the text reported.  A nil pointer takes the fmt.Sprintf
\* branch, and fmt prints a nil receiver as "<nil>".
ErrMsg(q) ==
    IF q.sdm # Nil
    THEN FailedMsg \o <<": ", q.sdm>>
    ELSE FailedMsg \o <<": ", "<nil>">>

\* Lines 417-445, and the branch to the confirmation.  Revision B
\* (plugin.go 682-697) calls err.Error() on the interface, which
\* dereferences a nil receiver.  In B and C the error answer is logged
\* between WriteHeader and Encode (line 441).
AfterSendStep(q, out) ==
    IF ~ErrNotNil(q) THEN [q EXCEPT !.pc = "Confirm"]
    ELSE IF out = "panic" THEN Panics(q, "AfterSend")
    ELSE IF rev = "B" /\ q.sdm = Nil THEN Panics(q, "AfterSend")
    ELSE IF out = "latepanic" THEN Panics(WriteHeader(q, 200), "AfterSend")
    ELSE Finished(Respond(q, ErrMsg(q)))

\* The host's SendEphemeralPost(userId, post): the post is shown to the
\* user named by the first argument only.  The plugin passes the channel id
\* there (line 495; plugin.go lines 287 and 700).
Confirmed(q) ==
    [q EXCEPT !.ephemerals = Append(@, [userId |-> q.ChannelId,
                                        UserId |-> q.UserId,
                                        ChannelId |-> q.ChannelId,
                                        Message |-> ConfirmationMsg])]

\* Lines 447-449 and sendConfirmationMessage, lines 464-499: the ephemeral
\* confirmation, sent under a recover of its own; a panic of the call is
\* logged there and the handler goes on.  Revisions A and B (plugin.go
\* 286-291, 699-704) call SendEphemeralPost in the handler.
ConfirmStep(q, out) ==
    LET q1 == Calls(q, "SendEphemeralPost", q.ChannelId, q.UserId) IN
    IF rev = "C" /\ (q.UserId = "" \/ q.ChannelId = "")
    THEN [q EXCEPT !.pc = "Success"]
    ELSE IF out = "ok" THEN [Confirmed(q1) EXCEPT !.pc = "Success"]
    ELSE IF out = "err" THEN [q1 EXCEPT !.pc = "Success"]
    ELSE IF rev = "C" /\ out = "panic"
         THEN [q1 EXCEPT !.pc = "Success", !.logged = TRUE]
         ELSE Panics(q1, "Confirm")   \* in C: the recover's own log panics

\* Lines 451-459: the success answer; B and C log between WriteHeader and
\* Encode (line 457).
SuccessStep(q, out) ==
    IF out = "latepanic"
    THEN Panics(WriteHeader(q, 200), "Success")
    ELSE Finished(Respond(q, <<>>))

\* ServeHTTP's deferred function, lines 268-277: log the panic, then
\* Content-Type, WriteHeader(500) and the JSON error body.  A panic of the
\* log call itself leaves the deferred function.
RecoverStep(q, out) ==
    IF out = "panic"
    THEN Finished([q EXCEPT !.panic = "escaped"])
    ELSE Finished(Write(WriteHeader([q EXCEPT !.panic = "recovered",
                                              !.logged = TRUE], 500),
                        [json |-> "map", Error |-> InternalMsg]))

\* ---------------------------------------------------------- ExecuteCommand

\* resp and err are the two values ExecuteCommand returns; dialogs are the
\* OpenInteractiveDialog requests made (by their URL), dialogErr what the
\* host answered to the last one.
IdleCmd == [pc |-> "idle", text |-> <<>>, branch |-> "",
            resp |-> [ResponseType |-> "", Text |-> <<>>], err |-> Nil,
            dialogs |-> <<>>, dialogErr |-> Nil]

Ephemeral(text) == [ResponseType |-> "ephemeral", Text |-> text]
\* A nil *model.CommandResponse.
NilResponse == [ResponseType |-> Nil, Text |-> <<>>]

\* The dialog's URL pointing at a path ServeHTTP does not serve.
DialogURLStale == <<"/plugins/", "manifest.Id", "/dialog">>

\* handleNewCommand, lines 119-165: open the dialog; its submissions go to
\* the plugin's /dialog/submit.
DialogURL == <<"/plugins/", "manifest.Id", "/dialog/submit">>

\* handleNewCommand returning OpenInteractiveDialog's error as the
\* AppError, with no response.
handleNewCommandReturnsError(c, text, out) ==
    [c EXCEPT !.pc = "done", !.text = text, !.branch = "new",
              !.dialogs = Append(@, DialogURL),
              !.dialogErr = IF out = "err" THEN "OpenInteractiveDialog: error"
                            ELSE Nil,
              !.err = IF out = "err" THEN "OpenInteractiveDialog: error" ELSE Nil,
              !.resp = IF out = "err" THEN NilResponse
                       ELSE [ResponseType |-> "", Text |-> <<>>]]

handleNewCommand(c, text, out) ==
    [c EXCEPT !.pc = "done", !.text = text, !.branch = "new",
              !.dialogs = Append(@, DialogURL),
              !.dialogErr = IF out = "err" THEN "OpenInteractiveDialog: error"
                            ELSE Nil,
              !.resp = IF out = "err"
                       THEN Ephemeral(<<"Error opening the dialog: ",
                                        "OpenInteractiveDialog: error">>)
                       ELSE [ResponseType |-> "", Text |-> <<>>]]

\* ExecuteCommand taking "new" only as the last field.
ExecuteCommandExact(c, text, out) ==
    IF ~HasPrefix(text, Approver)
    THEN [c EXCEPT !.pc = "done", !.text = text, !.branch = "unknown",
                   !.resp = Ephemeral(<<"Unknown command: ">> \o text)]
    ELSE LET splitCmd == Fields(text) IN
         IF Len(splitCmd) = 2 /\ splitCmd[2] = New
         THEN handleNewCommand(c, text, out)
         ELSE [c EXCEPT !.pc = "done", !.text = text, !.branch = "hello",
                        !.resp = Ephemeral(<<"Hello, world! Use '/approver new' to open the approval form.">>)]

\* ExecuteCommand, lines 96-116.
ExecuteCommand(c, text, out) ==
    IF ~HasPrefix(text, Approver)
    THEN [c EXCEPT !.pc = "done", !.text = text, !.branch = "unknown",
                   !.resp = Ephemeral(<<"Unknown command: ">> \o text)]
    ELSE LET splitCmd == Fields(text) IN
         IF Len(splitCmd) > 1 /\ splitCmd[2] = New
         THEN handleNewCommand(c, text, out)
         ELSE [c EXCEPT !.pc = "done", !.text = text, !.branch = "hello",
                        !.resp = Ephemeral(<<"Hello, world! Use '/approver new' to open the approval form.">>)]

\* ------------------------------------------------------------------ inputs

Reqs == 1 .. MaxRequests

Requesters == {"u1", ""}      \* request.UserId; the host may leave it empty
Channels == {"town"}
Titles == {Missing, NonString, "", "T"}
Descriptions == {Missing, NonString, "", "D"}
Approvers == {Missing, NonString, "", "u1", "u2", "ghost"}
Submissions == [title : Titles, description : Descriptions, approver : Approvers]
NoSubmission == [title |-> Missing, description |-> Missing, approver |-> Missing]

\* The requests the host hands to ServeHTTP: another path, a body that
\* cannot be read or parsed, and the dialog submissions.
OtherPaths == {"/other", "/", "", "/dialog", "/dialog/submit/",
               "/dialog/submit/x", "/Dialog/Submit", "/api/dialog/submit"}
Inputs ==
    [path : OtherPaths, body : {"valid"}, UserId : {"u1"},
     ChannelId : {"town"},
     sub : {NoSubmission,
            [title |-> "T", description |-> "D", approver |-> "u2"]}]
    \cup [path : {"/dialog/submit"}, body : {"unreadable", "invalid"},
          UserId : {""}, ChannelId : {""}, sub : {NoSubmission}]
    \cup [path : {"/dialog/submit"}, body : {"valid"}, UserId : Requesters,
          ChannelId : Channels, sub : Submissions]

\* What the dialog of handleNewCommand (lines 121-148) submits: text typed
\* into the two text fields and a user picked from the host's user list.
DialogSubmissions ==
    [title : {"T", ""}, description : {"D"}, approver : {"u1", "u2"}]

\* The host serves a plugin under /plugins/<plugin id>: the plugin's
\* ServeHTTP sees the rest of the URL as r.URL.Path (line 279).
PluginPath(url) ==
    IF Len(url) = 3 /\ url[1] = "/plugins/" THEN url[3] ELSE ""

\* Command lines: a head followed by at most MaxTail characters.
TailChars == {" ", "n", "e", "w"}
RECURSIVE Tails(_)
Tails(n) ==
    IF n = 0 THEN {<<>>}
    ELSE LET shorter == Tails(n - 1) IN
         shorter \cup {Append(t, ch) : t \in {u \in shorter : Len(u) = n - 1},
                                       ch \in TailChars}
Heads == {Approver, SubSeq(Approver, 1, 8), <<" ">> \o Approver, <<"/", "x">>, <<>>}
AllCommands == {h \o t : h \in Heads, t \in Tails(MaxTail)}
SomeCommands == {Approver, Approver \o <<" ">> \o New, <<"/", "x">>}

\* What each host call can answer, given the host's state.  A lookup or a
\* channel resolution succeeds only for existing accounts; every call can
\* fail, and can panic.
UserOuts(id) == (IF id \in users THEN {"ok"} ELSE {}) \cup {"err", "nil", "panic"}
ChannelOuts(a, b) ==
    (IF a \in users /\ b \in users THEN {"ok"} ELSE {}) \cup {"err", "nil", "panic"}
KVOuts == {"ok", "err", "panic"}
\* In B and C a log call follows the successful CreatePost.
PostOuts == {"ok", "err", "panic"} \cup (IF rev = "A" THEN {} ELSE {"oklogpanic"})
\* Log calls: revision A logs only the delivery error.
LogOuts == IF rev = "A" THEN {"ok"} ELSE {"ok", "panic"}

\* ----------------------------------------------------------------- actions

Quiet ==
    /\ act.pc = "idle"
    /\ cmd.pc = "idle"
    /\ \A r \in Reqs : reqs[r].pc = "idle"

Set(r, q) == reqs' = [reqs EXCEPT ![r] = q]
HostSame == UNCHANGED <<rev, users, kv, act, cmd>>

\* The host hands a request to the plugin.
Arrive(r) ==
    /\ Quiet
    /\ \E in \in Inputs : Set(r, NewReq(in))
    /\ HostSame

\* The user submits the dialog that the command just answered has opened:
\* the host posts the submission to the dialog's URL, with the dialog's
\* CallbackId (line 123).
Submit(r) ==
    /\ cmd.pc = "done"
    /\ cmd.dialogs # <<>>
    /\ cmd.dialogErr = Nil
    /\ act.pc = "idle"
    /\ \A s \in Reqs : reqs[s].pc = "idle"
    /\ \E sub \in DialogSubmissions :
          Set(r, [NewReq([path |-> PluginPath(cmd.dialogs[Len(cmd.dialogs)]),
                          body |-> "valid", UserId |-> "u1",
                          ChannelId |-> "town", sub |-> sub])
                  EXCEPT !.CallbackId = "newApprovalRequest"])
    /\ cmd' = IdleCmd
    /\ UNCHANGED <<rev, users, kv, act>>

ServeHTTP(r) ==
    /\ reqs[r].pc = "ServeHTTP"
    /\ \E out \in LogOuts : Set(r, ServeStep(reqs[r], out))
    /\ HostSame

Decode(r) ==
    /\ reqs[r].pc = "Decode"
    /\ \E out \in LogOuts \cup (IF rev # "A" /\ reqs[r].body = "invalid"
                                THEN {"latepanic"} ELSE {}) :
          Set(r, DecodeStep(reqs[r], out))
    /\ HostSame

HandlerKVGet(r) ==
    /\ reqs[r].pc = "KVGet"
    /\ \E out \in KVOuts : Set(r, KVGetStep(reqs[r], out))
    /\ HostSame

GetApprover(r) ==
    /\ reqs[r].pc = "GetApprover"
    /\ \E out \in UserOuts(reqs[r].approverUserId) \cup {"errlogpanic"} :
          Set(r, GetApproverStep(reqs[r], out))
    /\ HostSame

SdmKVGet(r) ==
    /\ reqs[r].pc = "sdmKVGet"
    /\ \E out \in KVOuts : Set(r, SdmKVGetStep(reqs[r], out, kv))
    /\ HostSame

SdmGetRequester(r) ==
    /\ reqs[r].pc = "sdmGetRequester"
    /\ \E out \in UserOuts(reqs[r].UserId) :
          Set(r, SdmGetRequesterStep(reqs[r], out))
    /\ HostSame

SdmGetBot(r) ==
    /\ reqs[r].pc = "sdmGetBot"
    /\ \E out \in UserOuts(reqs[r].botUserIDBytes) :
          Set(r, SdmGetBotStep(reqs[r], out))
    /\ HostSame

SdmBotChannel(r) ==
    /\ reqs[r].pc = "sdmBotChannel"
    /\ \E out \in ChannelOuts(reqs[r].botUserIDBytes, reqs[r].approverUserId) :
          Set(r, SdmBotChannelStep(reqs[r], out))
    /\ HostSame

SdmBotPost(r) ==
    /\ reqs[r].pc = "sdmBotPost"
    /\ \E out \in PostOuts : Set(r, SdmBotPostStep(reqs[r], out))
    /\ HostSame

SdmUserChannel(r) ==
    /\ reqs[r].pc = "sdmUserChannel"
    /\ \E out \in ChannelOuts(reqs[r].UserId, reqs[r].approverUserId) :
          Set(r, SdmUserChannelStep(reqs[r], out))
    /\ HostSame

SdmUserPost(r) ==
    /\ reqs[r].pc = "sdmUserPost"
    /\ \E out \in PostOuts : Set(r, SdmUserPostStep(reqs[r], out))
    /\ HostSame

AfterSend(r) ==
    /\ reqs[r].pc = "AfterSend"
    /\ \E out \in {"ok", "panic"} \cup (IF rev = "A" THEN {} ELSE {"latepanic"}) :
          Set(r, AfterSendStep(reqs[r], out))
    /\ HostSame

Confirm(r) ==
    /\ reqs[r].pc = "Confirm"
    /\ \E out \in {"ok", "err", "panic"} \cup (IF rev = "C" THEN {"repanic"} ELSE {}) :
          Set(r, ConfirmStep(reqs[r], out))
    /\ HostSame

Success(r) ==
    /\ reqs[r].pc = "Success"
    /\ \E out \in {"ok"} \cup (IF rev = "A" THEN {} ELSE {"latepanic"}) :
          Set(r, SuccessStep(reqs[r], out))
    /\ HostSame

Recover(r) ==
    /\ reqs[r].pc = "Recover"
    /\ \E out \in {"ok", "panic"} : Set(r, RecoverStep(reqs[r], out))
    /\ HostSame

\* The host has the answer (or the panic); the slot is free again.
Deliver(r) ==
    /\ reqs[r].pc = "done"
    /\ Set(r, IdleReq)
    /\ HostSame

Request(r) ==
    \/ Arrive(r) \/ Submit(r) \/ ServeHTTP(r) \/ Decode(r) \/ HandlerKVGet(r)
    \/ GetApprover(r) \/ SdmKVGet(r) \/ SdmGetRequester(r) \/ SdmGetBot(r)
    \/ SdmBotChannel(r) \/ SdmBotPost(r) \/ SdmUserChannel(r)
    \/ SdmUserPost(r) \/ AfterSend(r) \/ Confirm(r) \/ Success(r)
    \/ Recover(r) \/ Deliver(r)

ActSame == UNCHANGED <<rev, users, kv, reqs, cmd>>

\* OnActivate, lines 26-54, one host call per step.
OnActivate ==
    /\ Quiet
    /\ \E out \in {"ok", "err"} : act' = RegisterCommandStep(act, out)
    /\ ActSame

EnsureKVGet ==
    /\ act.pc = "KVGet"
    /\ \E out \in {"ok", "err"} : act' = EnsureKVGetStep(act, out, kv)
    /\ ActSame

EnsureGetUser ==
    /\ act.pc = "GetUser"
    /\ \E out \in UserOuts(act.stored) \ {"panic"} :
          act' = EnsureGetUserStep(act, out)
    /\ ActSame

EnsureGetUserByUsername ==
    /\ act.pc = "GetUserByUsername"
    /\ \E found \in {UserByName(users, botUsername), Nil} :
          act' = EnsureGetUserByUsernameStep(act, found)
    /\ ActSame

\* CreateBot makes the bot account unless the user name is taken.
EnsureCreateBot ==
    /\ act.pc = "CreateBot"
    /\ \E out \in (IF UserByName(users, botUsername) = Nil THEN {"ok"} ELSE {})
                  \cup {"err"} :
          /\ act' = EnsureCreateBotStep(act, out, "bot")
          /\ users' = IF out = "ok" THEN users \cup {"bot"} ELSE users
    /\ UNCHANGED <<rev, kv, reqs, cmd>>

StoreBotId ==
    /\ act.pc = "KVSet"
    /\ \E out \in {"ok", "err"} :
          /\ act' = StoreStep(act, out)
          /\ kv' = IF out = "ok" THEN act.botUserID ELSE kv
    /\ UNCHANGED <<rev, users, reqs, cmd>>

Activated ==
    /\ act.pc = "done"
    /\ act' = IdleAct
    /\ ActSame

Activation ==
    \/ OnActivate \/ EnsureKVGet \/ EnsureGetUser \/ EnsureGetUserByUsername
    \/ EnsureCreateBot \/ StoreBotId \/ Activated

\* A slash command runs to its answer in one step.
Command(S) ==
    /\ Quiet
    /\ \E text \in S, out \in {"ok", "err"} :
          cmd' = ExecuteCommand(cmd, text, out)
    /\ UNCHANGED <<rev, users, kv, act, reqs>>

Answered ==
    /\ cmd.pc = "done"
    /\ cmd' = IdleCmd
    /\ UNCHANGED <<rev, users, kv, act, reqs>>

\* The host's administrators remove the account holding the bot's user
\* name, or a user registers that name while it is free.
HostChange ==
    /\ Quiet
    /\ \/ \E u \in users \cap {"imp", "bot"} : users' = users \ {u}
       \/ /\ UserByName(users, botUsername) = Nil
          /\ users' = users \cup {"imp"}
    /\ UNCHANGED <<rev, kv, act, reqs, cmd>>

Init ==
    /\ rev \in Revisions
    /\ users \in {{"u1", "u2"}, {"u1", "u2", "imp"}, {"u1", "u2", "bot"}}
    /\ kv = Nil
    /\ act = IdleAct
    /\ reqs = [r \in Reqs |-> IdleReq]
    /\ cmd = IdleCmd

Next ==
    \/ \E r \in Reqs : Request(r)
    \/ Activation
    \/ Command(SomeCommands)
    \/ Answered
    \/ HostChange

Spec == Init /\ [][Next]_vars

\* The command dispatch alone, over every generated command line.
InitCmd == Init /\ rev = "C" /\ users = {"u1", "u2"}
NextCmd == Command(AllCommands) \/ Answered
SpecCmd == InitCmd /\ [][NextCmd]_vars

\* The host's plugin runtime calling ServeHTTP for several submissions at
\* once, and OnActivate meanwhile: the steps of the handlers interleave
\* freely.  A handler keeps everything in local variables (part_003 lines
\* 169-263 and 294-460); bot_user_id and the host's tables are all they
\* share.  The submissions in flight differ in every field: slot 1 holds
\* u1's request to u2, every other slot u2's request to u1.
ConcInputs(r) ==
    IF r = 1
    THEN {[path |-> "/dialog/submit", body |-> "valid", UserId |-> "u1",
           ChannelId |-> "town",
           sub |-> [title |-> "T", description |-> "D", approver |-> "u2"]]}
    ELSE {[path |-> "/dialog/submit", body |-> "valid", UserId |-> "u2",
           ChannelId |-> "square",
           sub |-> [title |-> "T2", description |-> "D2", approver |-> "u1"]]}

ArriveConc(r) ==
    /\ reqs[r].pc = "idle"
    /\ \E in \in ConcInputs(r) : Set(r, NewReq(in))
    /\ HostSame

OnActivateConc ==
    /\ act.pc = "idle"
    /\ \E out \in {"ok", "err"} : act' = RegisterCommandStep(act, out)
    /\ ActSame

RequestConc(r) ==
    \/ ArriveConc(r) \/ ServeHTTP(r) \/ Decode(r) \/ HandlerKVGet(r)
    \/ GetApprover(r) \/ SdmKVGet(r) \/ SdmGetRequester(r) \/ SdmGetBot(r)
    \/ SdmBotChannel(r) \/ SdmBotPost(r) \/ SdmUserChannel(r)
    \/ SdmUserPost(r) \/ AfterSend(r) \/ Confirm(r) \/ Success(r)
    \/ Recover(r) \/ Deliver(r)

\* A fresh host: no bot account yet, nothing stored.
InitConc ==
    /\ rev \in {"A", "C"}
    /\ users = {"u1", "u2"}
    /\ kv = Nil
    /\ act = IdleAct
    /\ reqs = [r \in Reqs |-> IdleReq]
    /\ cmd = IdleCmd

NextConc ==
    \/ \E r \in Reqs : RequestConc(r)
    \/ OnActivateConc \/ EnsureKVGet \/ EnsureGetUser
    \/ EnsureGetUserByUsername \/ EnsureCreateBot \/ StoreBotId \/ Activated

SpecConc == InitConc /\ [][NextConc]_vars

\* ------------------------------------------------------------------ claims

Done(q) == q.pc = "done"
Returned(q) == q.sdm # "none"
BotPosted(q) == \E i \in 1 .. Len(q.creates) : q.creates[i].as = "bot" /\ q.creates[i].ok
\* The JSON answers written that are a SubmitDialogResponse with an error.
ErrorAnswers(q) ==
    {i \in 1 .. Len(q.written) :
        q.written[i].json = "SubmitDialogResponse" /\ q.written[i].Error # <<>>}

\* C1: whenever sendDirectMessage has returned nil, exactly one post was
\* created for the submission; the post is in the direct channel of its
\* sender and the approver, and its sender is the bot id read from
\* bot_user_id or the requester.
C1_NilReturnMeansOnePost ==
    \A r \in Reqs :
        LET q == reqs[r] IN
        q.sdm = Nil =>
            /\ Len(q.posts) = 1
            /\ q.posts[1].ChannelId =
                   DirectChannel(q.posts[1].UserId, q.approverUserId)
            /\ \/ q.posts[1].UserId = q.UserId
               \/ /\ q.posts[1].UserId = q.botUserIDBytes
                  /\ q.botUserIDBytes = kv
                  /\ kv # Nil

\* C1 witness: the bot's CreatePost failed, the requester's succeeded, and
\* sendDirectMessage returned nil.
C1_Witness ==
    \E r \in Reqs :
        /\ rev = "C"
        /\ reqs[r].sdm = Nil
        /\ Len(reqs[r].creates) = 2
        /\ reqs[r].posts[1].UserId = reqs[r].UserId

\* C2: when sendDirectMessage created the post and returned nil, the
\* handler (unless a host call panics) sends the ephemeral confirmation and
\* answers 200 with a SubmitDialogResponse whose Error is empty.
C2_SuccessIsConfirmed ==
    \A r \in Reqs :
        LET q == reqs[r] IN
        (rev = "C" /\ Done(q) /\ q.sdm = Nil /\ q.panicAt = "") =>
            /\ \E i \in 1 .. Len(q.calls) : q.calls[i][1] = "SendEphemeralPost"
            /\ q.status = 200
            /\ q.written = <<[json |-> "SubmitDialogResponse", Error |-> <<>>]>>

\* C3: a SubmitDialogResponse with a non-empty Error means that no post was
\* created for the submission.
C3_ErrorMeansNoPost ==
    \A r \in Reqs :
        LET q == reqs[r] IN
        (rev = "C" /\ ErrorAnswers(q) # {}) => q.posts = <<>>

UserPathTried(q) ==
    \E i \in 1 .. Len(q.calls) :
        q.calls[i] = <<"GetDirectChannel", q.UserId, q.approverUserId>>
LastCall(q) == q.calls[Len(q.calls)]

\* C4: in revision C, once sendDirectMessage has returned with the requester
\* looked up and no post made by the bot, it has tried the delivery as the
\* requester; and it returns an error only from the requester lookup or
\* from the requester's own channel resolution or CreatePost.
C4_BotFailureFallsBack ==
    \A r \in Reqs :
        LET q == reqs[r] IN
        (rev = "C" /\ Returned(q)) =>
            /\ (q.requester # Nil /\ ~BotPosted(q)) => UserPathTried(q)
            /\ q.sdm # Nil =>
                  /\ q.posts = <<>>
                  /\ \/ /\ q.requester = Nil
                        /\ LastCall(q) = <<"GetUser", q.UserId, "">>
                     \/ /\ UserPathTried(q)
                        /\ LastCall(q) \in
                              {<<"GetDirectChannel", q.UserId, q.approverUserId>>,
                               <<"CreatePost", q.UserId, "">>}

\* C4 witness: the bot's channel did not resolve, the user path was taken
\* and its CreatePost failed.
C4_Witness ==
    \E r \in Reqs :
        /\ rev = "C"
        /\ reqs[r].sdm = "CreatePost: error"
        /\ \E i \in 1 .. Len(reqs[r].calls) :
              reqs[r].calls[i][1] = "GetDirectChannel"
              /\ reqs[r].calls[i][2] = reqs[r].botUserIDBytes
        /\ Len(reqs[r].creates) = 1

Attempts(q, who) == {i \in 1 .. Len(q.creates) : q.creates[i].as = who}

\* C5: one submission calls CreatePost at most twice, at most once as the
\* bot and at most once as the requester, as the requester only after no
\* successful call as the bot; at most one post is created.
C5_NoRetry ==
    \A r \in Reqs :
        LET q == reqs[r] IN
        /\ Len(q.creates) <= 2
        /\ Cardinality(Attempts(q, "bot")) <= 1
        /\ Cardinality(Attempts(q, "user")) <= 1
        /\ \A i \in Attempts(q, "user") :
              \A j \in Attempts(q, "bot") : j < i /\ ~q.creates[j].ok
        /\ Len(q.posts) <= 1

\* C5 witness: both calls were made and the second created the post.
C5_Witness ==
    \E r \in Reqs :
        /\ Len(reqs[r].creates) = 2
        /\ ~reqs[r].creates[1].ok
        /\ reqs[r].creates[2].ok
        /\ Done(reqs[r])

\* C6: a panic inside ServeHTTP is recovered there and logged, and the
\* answer is status 500 with the JSON body {"error": "Internal server
\* error"}; it never leaves ServeHTTP.
C6_PanicAnswered500 ==
    \A r \in Reqs :
        LET q == reqs[r] IN
        (rev = "C" /\ Done(q) /\ q.panicAt # "") =>
            /\ q.panic = "recovered"
            /\ q.logged
            /\ q.status = 500
            /\ q.written # <<>>
            /\ q.written[Len(q.written)] = [json |-> "map", Error |-> InternalMsg]

KVSets(a) == {i \in 1 .. Len(a.calls) : a.calls[i][1] = "KVSet"}

\* C7: bot_user_id changes only in OnActivate's KVSet step, which leaves
\* every request and command as it is, and one activation calls KVSet at
\* most once; no step of a command or of a submission changes the value.
C7_OnlyActivationWrites ==
    [][/\ kv' # kv => (act.pc = "KVSet" /\ act'.pc = "done"
                        /\ reqs' = reqs /\ cmd' = cmd)
       /\ Cardinality(KVSets(act')) <= 1]_vars

\* C7 witness: a submission was relayed with the id an activation stored.
C7_Witness ==
    \E r \in Reqs :
        /\ kv # Nil
        /\ Done(reqs[r])
        /\ reqs[r].botUserIDBytes = kv
        /\ Len(reqs[r].posts) = 1

\* C8: the value stored under bot_user_id, when present, is the id of a bot
\* account, never of an ordinary user.
C8_StoredIdIsBot == kv # Nil => IsBot(kv)

\* The claim's reading of a command line, stated on positions: a field
\* starts at a non-space character that is first or follows a space.
FieldStarts(t) ==
    {i \in 1 .. Len(t) : ~IsSpace(t[i]) /\ (i = 1 \/ IsSpace(t[i - 1]))}
SecondFieldIsNew(t) ==
    \E i \in FieldStarts(t) :
        /\ Cardinality({j \in FieldStarts(t) : j < i}) = 1
        /\ i + 2 <= Len(t)
        /\ t[i] = "n" /\ t[i + 1] = "e" /\ t[i + 2] = "w"
        /\ (i + 3 <= Len(t) => IsSpace(t[i + 3]))
StartsWithApprover(t) ==
    /\ Len(t) >= 9
    /\ \A i \in 1 .. 9 : t[i] = Approver[i]

\* C9: ExecuteCommand answers "Unknown command: <text>" when the text does
\* not start with "/approver"; otherwise opens the dialog when the second
\* field is "new"; otherwise answers the hello text.  Exactly one of the
\* three happens.
C9_ThreeWayDispatch ==
    cmd.pc = "done" =>
        LET t == cmd.text IN
        IF ~StartsWithApprover(t)
        THEN /\ cmd.resp = Ephemeral(<<"Unknown command: ">> \o t)
             /\ cmd.dialogs = <<>>
        ELSE IF SecondFieldIsNew(t)
        THEN /\ Len(cmd.dialogs) = 1
             /\ \/ cmd.resp = [ResponseType |-> "", Text |-> <<>>]
                \/ /\ cmd.resp.ResponseType = "ephemeral"
                   /\ cmd.resp.Text[1] = "Error opening the dialog: "
        ELSE /\ cmd.resp = Ephemeral(<<"Hello, world! Use '/approver new' to open the approval form.">>)
             /\ cmd.dialogs = <<>>

\* C9 witness: "new" followed by a further field opened the dialog.
C9_Witness ==
    /\ cmd.pc = "done"
    /\ Len(cmd.dialogs) = 1
    /\ Len(Fields(cmd.text)) > 2

CallsOf(a, name) == {i \in 1 .. Len(a.calls) : a.calls[i][1] = name}
Resolved(a) == \E i \in CallsOf(a, "GetUser") : a.calls[i][2] = "ok"

\* C10: ensureBotExists asks for the user name only when no stored id
\* resolved to a user, and creates the bot only when, moreover, the user
\* name lookup found nobody; a stored id that resolves is returned and
\* neither later call is made.
C10_CachedThenNameThenCreate ==
    /\ \A i \in CallsOf(act, "GetUserByUsername") :
          /\ ~Resolved(act)
          /\ \E j \in CallsOf(act, "KVGet") : j < i
          /\ \A j \in CallsOf(act, "GetUser") : j < i
    /\ \A i \in CallsOf(act, "CreateBot") :
          /\ ~Resolved(act)
          /\ \E j \in CallsOf(act, "GetUserByUsername") :
                j < i /\ act.calls[j][2] = Nil
    /\ Resolved(act) =>
          /\ act.stored # Nil
          /\ act.botUserID = act.stored
          /\ CallsOf(act, "GetUserByUsername") = {}
          /\ CallsOf(act, "CreateBot") = {}

\* C10 witness: the stored id resolved and is about to be stored again.
C10_Witness ==
    /\ Resolved(act)
    /\ act.pc = "KVSet"

Failures(a) ==
    {i \in 1 .. Len(a.calls) :
        a.calls[i][1] \in {"KVGet", "CreateBot", "KVSet"} /\ a.calls[i][2] = "err"}

\* C11: OnActivate returns an error exactly when RegisterCommand failed; a
\* failure of ensureBotExists (its KVGet or CreateBot) or of KVSet is
\* logged as a warning and OnActivate returns nil.
C11_ErrorIffRegisterFails ==
    act.pc = "done" =>
        /\ act.ret \in {"err", "nil"}
        /\ act.ret = "err" <=> act.calls[1] = <<"RegisterCommand", "err">>
        /\ act.ret = "err" => Len(act.calls) = 1
        /\ Failures(act) # {} => (act.warned /\ act.ret = "nil")

\* C11 witness: the bot was found, KVSet failed, OnActivate returned nil.
C11_Witness ==
    /\ act.pc = "done"
    /\ act.ret = "nil"
    /\ act.warned
    /\ act.calls[Len(act.calls)] = <<"KVSet", "err">>

\* The message a submission's post must carry, from the fields submitted.
\* Revision A's post as the requester has no heading (plugin.go line 234).
OwnMessage(q, sender) ==
    IF rev = "A" /\ sender = q.UserId
    THEN <<"**", q.sub.title, "**\n\n", q.sub.description>>
    ELSE <<"**New Approval Request from @", Username(q.UserId), "**\n\n**",
           q.sub.title, "**\n\n", q.sub.description>>

C12_OwnPost ==
    \A r \in Reqs :
        LET q == reqs[r] IN
        /\ Len(q.posts) <= 1
        /\ \A i \in 1 .. Len(q.posts) :
              LET post == q.posts[i] IN
              /\ post.UserId \in {q.UserId, q.botUserIDBytes}
              /\ post.ChannelId = DirectChannel(post.UserId, q.sub.approver)
              /\ post.Message = OwnMessage(q, post.UserId)

C12_OwnSteps ==
    \A r \in Reqs :
        reqs'[r] # reqs[r] =>
            /\ \A s \in Reqs \ {r} : reqs'[s] = reqs[s]
            /\ act' = act /\ kv' = kv

\* C12: with the submissions' handlers and OnActivate interleaved step by
\* step, every submission creates at most one post, in the direct channel
\* of the post's sender with the submission's own approver, carrying the
\* submission's own requester name, title and description; and a step of
\* one submission changes nothing of another submission, of the activation
\* or of bot_user_id.
C12_SubmissionsIndependent == []C12_OwnPost /\ [][C12_OwnSteps]_vars

\* C12 witness: two submissions in flight around an activation; one read
\* bot_user_id before OnActivate stored the bot and posted as its
\* requester, the other read it afterwards and posted as the bot.
C12_Witness ==
    \E r, s \in Reqs :
        /\ rev = "C"
        /\ reqs[r].botUserIDBytes = Nil
        /\ Len(reqs[r].posts) = 1
        /\ reqs[r].posts[1].UserId = reqs[r].UserId
        /\ Len(reqs[s].posts) = 1
        /\ reqs[s].posts[1].UserId = "bot"
        /\ reqs[s].sub.approver # reqs[r].sub.approver

SubFields == {"title", "description", "approver"}
Supplied(q, f) == q.sub[f] \notin {Missing, NonString, ""}
\* The three values after lines 328-364, from the submission itself.
Extracted(q) ==
    [title |-> IF q.sub.title \in {Missing, NonString}
               THEN "Untitled Request" ELSE q.sub.title,
     description |-> IF q.sub.description \in {Missing, NonString}
                     THEN "No description provided" ELSE q.sub.description,
     approver |-> IF q.sub.approver \in {Missing, NonString}
                  THEN q.UserId ELSE q.sub.approver]
IsSubmission(q) == q.path = "/dialog/submit" /\ q.body = "valid"
Sending(q) ==
    \E i \in 1 .. Len(q.calls) :
        q.calls[i][1] \in {"GetDirectChannel", "CreatePost", "SendEphemeralPost"}
MissingAnswer == <<[json |-> "SubmitDialogResponse", Error |-> MissingMsg]>>

\* C13 as stated: a post is created only when title, description and
\* approver are each supplied as a non-empty string; a submission in which
\* one of them is missing, not a string or empty is answered "Missing
\* required fields..." and nothing is sent.
C13_RequiredFieldsSupplied ==
    \A r \in Reqs :
        LET q == reqs[r] IN
        (rev \in {"B", "C"} /\ IsSubmission(q)) =>
            /\ q.posts # <<>> => \A f \in SubFields : Supplied(q, f)
            /\ (Done(q) /\ q.panicAt = ""
                 /\ \E f \in SubFields : ~Supplied(q, f)) =>
                   (q.written = MissingAnswer /\ ~Sending(q))

\* C13 amended: the validation looks at the values after the fallbacks.  A
\* post is created (or a channel resolved) only when the three extracted
\* values are non-empty; a submission with an empty extracted value (an
\* empty string submitted, or no usable approver and an empty
\* request.UserId) is answered 200 "Missing required fields..." and nothing
\* is sent; a missing or non-string value is replaced by its fallback and
\* does not stop the submission.
C13_ValidatesExtractedFields ==
    \A r \in Reqs :
        LET q == reqs[r]
            x == Extracted(q)
        IN
        (rev \in {"B", "C"} /\ IsSubmission(q)) =>
            /\ (q.posts # <<>> \/ Sending(q)) => \A f \in SubFields : x[f] # ""
            /\ (Done(q) /\ q.panicAt = "" /\ \E f \in SubFields : x[f] = "") =>
                   /\ q.written = MissingAnswer
                   /\ q.status = 200
                   /\ q.calls = <<<<"KVGet", "bot_user_id", "">>>>
            /\ (Done(q) /\ q.panicAt = "" /\ \A f \in SubFields : x[f] # "") =>
                   q.written # MissingAnswer

\* C13 witness: an empty request.UserId stood in for the missing approver
\* and the submission was refused; nothing was sent.
C13_Witness ==
    \E r \in Reqs :
        /\ rev = "C"
        /\ Done(reqs[r])
        /\ reqs[r].sub.approver = Missing
        /\ reqs[r].sub.title = "T"
        /\ reqs[r].UserId = ""
        /\ reqs[r].written = MissingAnswer

InvalidAnswer == <<[json |-> "SubmitDialogResponse", Error |-> InvalidMsg]>>
ApproverLookups(q) ==
    {i \in 1 .. Len(q.calls) :
        q.calls[i] = <<"GetUser", Extracted(q).approver, "">>}

\* C14: when GetUser(approver) returned an error, the handler (no host
\* call panicking) answers 200 with "The selected approver is invalid..."
\* and sendDirectMessage is not called: no bot id read for sending, no
\* channel resolved, no post, no confirmation.  Every channel resolution
\* and every CreatePost comes after the approver lookup.
C14_InvalidApproverStops ==
    \A r \in Reqs :
        LET q == reqs[r] IN
        (rev \in {"B", "C"} /\ IsSubmission(q)) =>
            /\ q.appErr # Nil =>
                  /\ ~Sending(q)
                  /\ q.posts = <<>> /\ q.creates = <<>> /\ q.ephemerals = <<>>
                  /\ q.sdm = "none"
                  /\ Len(q.calls) = 2
                  /\ q.pc \in {"done", "Recover"}
            /\ (q.appErr # Nil /\ Done(q) /\ q.panicAt = "") =>
                  (q.status = 200 /\ q.written = InvalidAnswer)
            /\ \A i \in 1 .. Len(q.calls) :
                  q.calls[i][1] \in {"GetDirectChannel", "CreatePost"} =>
                      \E j \in ApproverLookups(q) : j < i

\* C14 witness: the lookup of an existing approver failed and the
\* submission was refused.
C14_Witness ==
    \E r \in Reqs :
        /\ rev = "C"
        /\ Done(reqs[r])
        /\ reqs[r].appErr # Nil
        /\ reqs[r].sub.approver = "u2"
        /\ reqs[r].written = InvalidAnswer

SuccessAnswer == <<[json |-> "SubmitDialogResponse", Error |-> <<>>]>>
ConfirmationTried(q) ==
    \E i \in 1 .. Len(q.calls) : q.calls[i][1] = "SendEphemeralPost"

\* C15: the ephemeral confirmation is sent only after the post to the
\* approver was created, at most once, to request.UserId in
\* request.ChannelId with the confirmation text; and whatever happens to
\* the SendEphemeralPost call (failure or panic), the submission is
\* answered 200 with an empty Error.
C15_ConfirmationAfterPost ==
    \A r \in Reqs :
        LET q == reqs[r] IN
        /\ Len(q.ephemerals) <= 1
        /\ ConfirmationTried(q) => (Len(q.posts) = 1 /\ q.sdm = Nil)
        /\ \A i \in 1 .. Len(q.ephemerals) :
              /\ q.ephemerals[i].userId = q.UserId
              /\ q.ephemerals[i].ChannelId = q.ChannelId
              /\ q.ephemerals[i].Message = ConfirmationMsg
        /\ (ConfirmationTried(q) /\ Done(q) /\ q.panicAt # "Success") =>
              (q.status = 200 /\ q.written = SuccessAnswer /\ q.panic = "none")

CallAt(q, call) == {i \in 1 .. Len(q.calls) : q.calls[i] = call}

\* C16: in revision C a CreatePost with the bot as sender is made only when,
\* in the same invocation, KVGet gave a non-empty bot id, GetUser on that id
\* gave a user without error and GetDirectChannel(bot, approver) gave a
\* channel without error, in that order; the sender is the id read (the
\* value stored under bot_user_id) and the post goes to that channel.
C16_BotSenderConditions ==
    \A r \in Reqs :
        LET q == reqs[r] IN
        rev = "C" =>
            \A i \in Attempts(q, "bot") :
                /\ q.botUserIDBytes \notin {Nil, ""}
                /\ q.botUserIDBytes = kv
                /\ q.botUser = q.botUserIDBytes
                /\ q.botUser \in users
                /\ q.botChannel # NoChannel
                /\ q.botChannel = DirectChannel(q.botUserIDBytes, q.approverUserId)
                /\ q.creates[i].UserId = q.botUserIDBytes
                /\ q.creates[i].ok =>
                      /\ q.posts[1].UserId = q.botUserIDBytes
                      /\ q.posts[1].ChannelId = q.botChannel
                /\ \E a \in CallAt(q, <<"KVGet", "bot_user_id", "">>),
                      b \in CallAt(q, <<"GetUser", q.botUserIDBytes, "">>),
                      c \in CallAt(q, <<"GetDirectChannel", q.botUserIDBytes,
                                        q.approverUserId>>),
                      d \in CallAt(q, <<"CreatePost", q.botUserIDBytes, "">>) :
                      1 < a /\ a < b /\ b < c /\ c < d

\* C16 witness: the bot's post was created.
C16_Witness ==
    \E r \in Reqs :
        /\ rev = "C"
        /\ Len(reqs[r].posts) = 1
        /\ reqs[r].posts[1].UserId = "bot"
        /\ reqs[r].botUser = "bot"

\* C17: every post created is in the channel that GetDirectChannel resolved,
\* earlier in the same invocation, for the post's own sender and the
\* approver: the bot's post in the bot-approver channel, the requester's
\* post in the requester-approver channel, also when the requester's post
\* follows a failed bot path.
C17_PostInSendersChannel ==
    \A r \in Reqs :
        LET q == reqs[r] IN
        \A i \in 1 .. Len(q.posts) :
            LET post == q.posts[i] IN
            /\ post.ChannelId = DirectChannel(post.UserId, q.approverUserId)
            /\ post.ChannelId =
                  IF post.UserId = q.UserId THEN q.channel ELSE q.botChannel
            /\ post.UserId # q.UserId =>
                  post.ChannelId # DirectChannel(q.UserId, q.approverUserId)
            /\ post.UserId = q.UserId =>
                  post.ChannelId # DirectChannel(q.botUserIDBytes, q.approverUserId)
            /\ \E c \in CallAt(q, <<"GetDirectChannel", post.UserId,
                                      q.approverUserId>>),
                  d \in CallAt(q, <<"CreatePost", post.UserId, "">>) : c < d

\* C17 witness: the bot's channel was resolved, the bot's CreatePost
\* failed, and the requester's post was created.
C17_Witness ==
    \E r \in Reqs :
        /\ rev \in {"B", "C"}
        /\ reqs[r].botChannel # NoChannel
        /\ Len(reqs[r].creates) = 2
        /\ Len(reqs[r].posts) = 1
        /\ reqs[r].posts[1].UserId = reqs[r].UserId

Unusable(v) == v \in {Missing, NonString}

\* C18: in revisions B and C a submission without a string under
\* "approver" is handled with request.UserId as the approver: the existence
\* check looks request.UserId up, every channel is resolved with
\* request.UserId as the other party, and the post is delivered to the
\* requester.  A title that is missing or not a string is sent as "Untitled
\* Request", such a description as "No description provided".
C18_Fallbacks ==
    \A r \in Reqs :
        LET q == reqs[r] IN
        (rev \in {"B", "C"} /\ IsSubmission(q) /\ q.calls # <<>>) =>
            /\ Unusable(q.sub.approver) =>
                  /\ q.approverUserId = q.UserId
                  /\ Len(q.calls) >= 2 => q.calls[2] = <<"GetUser", q.UserId, "">>
                  /\ \A i \in 1 .. Len(q.calls) :
                        q.calls[i][1] = "GetDirectChannel" =>
                            q.calls[i][3] = q.UserId
                  /\ \A i \in 1 .. Len(q.posts) :
                        q.posts[i].ChannelId =
                            DirectChannel(q.posts[i].UserId, q.UserId)
            /\ Unusable(q.sub.title) =>
                  /\ q.title = "Untitled Request"
                  /\ \A i \in 1 .. Len(q.posts) :
                        q.posts[i].Message[4] = "Untitled Request"
            /\ Unusable(q.sub.description) =>
                  /\ q.description = "No description provided"
                  /\ \A i \in 1 .. Len(q.posts) :
                        q.posts[i].Message[6] = "No description provided"

\* C18 witness: a submission with none of the three fields usable was
\* delivered to its requester with both fallback texts.
C18_Witness ==
    \E r \in Reqs :
        LET q == reqs[r] IN
        /\ rev = "C"
        /\ Unusable(q.sub.approver) /\ Unusable(q.sub.title)
        /\ Unusable(q.sub.description)
        /\ Len(q.posts) = 1
        /\ q.posts[1].UserId = q.UserId
        /\ q.posts[1].ChannelId = DirectChannel(q.UserId, q.UserId)
        /\ q.posts[1].Message[4] = "Untitled Request"

\* C19: in revisions B and C, when GetUser(fromUserId) answered an error or
\* a nil user, sendDirectMessage returns an error and has called neither
\* GetDirectChannel nor CreatePost, for the bot or for the requester: no
\* post is created, whatever bot id is stored.
C19_RequesterLookupFailureStops ==
    \A r \in Reqs :
        LET q == reqs[r] IN
        (rev \in {"B", "C"} /\ q.requesterAnswer \in {"err", "nil"}) =>
            /\ ~Sending(q)
            /\ q.posts = <<>> /\ q.creates = <<>>
            /\ Returned(q) /\ q.sdm # Nil

\* C20: in revision A, once sendDirectMessage has returned after reading a
\* bot id without the bot's post being created (GetDirectChannel for the
\* bot, the requester lookup or the bot's CreatePost answered an error),
\* it has tried the delivery as the requester.
C20_EarlierFallsBack ==
    \A r \in Reqs :
        LET q == reqs[r] IN
        (rev = "A" /\ q.botUserIDBytes # Nil /\ Returned(q) /\ ~BotPosted(q)) =>
            UserPathTried(q)

\* C21: a request to /dialog/submit whose body cannot be read or parsed
\* makes no host call (no KV read, no lookup, no channel resolution, no
\* post, no ephemeral post) and is answered 400 with no body; a request
\* whose body parses is answered 200 with one JSON SubmitDialogResponse,
\* whatever sendDirectMessage returned.  The answers are those of runs in
\* which nothing panics.
C21_BadBody400ElseJson200 ==
    \A r \in Reqs :
        LET q == reqs[r] IN
        /\ (q.path = "/dialog/submit" /\ q.body \in {"unreadable", "invalid"}) =>
              /\ q.calls = <<>>
              /\ q.posts = <<>> /\ q.creates = <<>> /\ q.ephemerals = <<>>
              /\ q.status \in {0, 400, 500}
              /\ (Done(q) /\ q.panicAt = "") =>
                    (q.status = 400 /\ q.written = <<>>)
        /\ (IsSubmission(q) /\ Done(q) /\ q.panicAt = "") =>
              /\ q.status = 200
              /\ Len(q.written) = 1
              /\ q.written[1].json = "SubmitDialogResponse"

\* C21 witness: a body that does not parse was answered 400.
C21_Witness ==
    \E r \in Reqs :
        /\ rev = "C"
        /\ reqs[r].path = "/dialog/submit"
        /\ reqs[r].body = "invalid"
        /\ Done(reqs[r])
        /\ reqs[r].status = 400
        /\ reqs[r].panicAt = ""

NotFoundAnswer == <<[json |-> "text", Error |-> NotFoundMsg]>>
InHandler(q) ==
    q.pc \notin {"idle", "ServeHTTP", "done", "Recover"}
    \/ q.panicAt \notin {"", "ServeHTTP"}
    \/ q.calls # <<>>
    \/ (q.status \notin {0, 404, 500})

\* C22: ServeHTTP hands a request to handleDialogSubmission exactly when
\* its path is "/dialog/submit".  A request to any other path never enters
\* the handler and makes no host call (no KV access, no lookup, no channel,
\* no post, no ephemeral post); without a panic it is answered 404.  A
\* request to "/dialog/submit" is never answered 404.
C22_ExactPathOnly ==
    \A r \in Reqs :
        LET q == reqs[r] IN
        /\ (q.pc # "idle" /\ q.path # "/dialog/submit") =>
              /\ ~InHandler(q)
              /\ q.calls = <<>>
              /\ q.posts = <<>> /\ q.creates = <<>> /\ q.ephemerals = <<>>
              /\ (Done(q) /\ q.panicAt = "") =>
                    (q.status = 404 /\ q.written = NotFoundAnswer)
        /\ q.path = "/dialog/submit" =>
              /\ q.status # 404
              /\ (Done(q) /\ q.panicAt # "ServeHTTP") => InHandler(q)

\* C22 witness: a request to a path that only starts like the handler's,
\* carrying a complete submission, was answered 404.
C22_Witness ==
    \E r \in Reqs :
        /\ reqs[r].path = "/dialog/submit/"
        /\ reqs[r].sub.approver = "u2"
        /\ Done(reqs[r])
        /\ reqs[r].status = 404

FromDialog(q) == q.CallbackId = "newApprovalRequest"

\* C23: the URL handleNewCommand gives to OpenInteractiveDialog is
\* "/plugins/<manifest id>/dialog/submit"; the submission of a dialog the
\* plugin opened arrives at ServeHTTP with the path "/dialog/submit", is
\* handed to handleDialogSubmission and is never answered 404.
C23_DialogReachesHandler ==
    /\ (cmd.pc = "done" /\ cmd.branch = "new") =>
          /\ Len(cmd.dialogs) = 1
          /\ Len(cmd.dialogs[1]) = 3
          /\ cmd.dialogs[1][1] = "/plugins/"
          /\ cmd.dialogs[1][3] = "/dialog/submit"
    /\ \A r \in Reqs :
          LET q == reqs[r] IN
          FromDialog(q) =>
              /\ q.path = "/dialog/submit"
              /\ q.status # 404
              /\ q.written # NotFoundAnswer
              /\ (Done(q) /\ q.panicAt # "ServeHTTP") => InHandler(q)

\* C23 witness: the submission of an opened dialog was relayed to the
\* approver.
C23_Witness ==
    \E r \in Reqs :
        /\ FromDialog(reqs[r])
        /\ Done(reqs[r])
        /\ Len(reqs[r].posts) = 1
        /\ reqs[r].status = 200

NoResponseText == [ResponseType |-> "", Text |-> <<>>]

C24_Response ==
    cmd.pc = "done" =>
        /\ cmd.resp # NilResponse
        /\ cmd.err = Nil
        /\ cmd.branch = "new" =>
              /\ Len(cmd.dialogs) = 1
              /\ cmd.dialogErr # Nil =>
                    cmd.resp = Ephemeral(<<"Error opening the dialog: ",
                                           cmd.dialogErr>>)
              /\ cmd.dialogErr = Nil => cmd.resp = NoResponseText
        /\ cmd.branch # "new" =>
              (cmd.dialogs = <<>> /\ cmd.resp.ResponseType = "ephemeral")

C24_Frame ==
    (cmd.pc = "idle" /\ cmd'.pc = "done") =>
        (kv' = kv /\ users' = users /\ reqs' = reqs /\ act' = act)

\* C24: ExecuteCommand returns a response and a nil AppError on every
\* branch: a failed OpenInteractiveDialog is reported in an ephemeral
\* response "Error opening the dialog: ...", a successful one gives the empty
\* response.  The step of ExecuteCommand creates no post, starts no
\* request and leaves bot_user_id and the host's users as they are.
C24_AlwaysAResponse == []C24_Response /\ [][C24_Frame]_vars

\* C24 witness: with a bot id stored, the dialog could not be opened and
\* the command answered with the error text.
C24_Witness ==
    /\ cmd.pc = "done"
    /\ cmd.branch = "new"
    /\ cmd.dialogErr # Nil
    /\ cmd.resp.ResponseType = "ephemeral"
    /\ kv # Nil

====
